---- MODULE Spec2Model ----
(***************************************************************************)
(* A model of the result presentation layer of streamlit_app.py:           *)
(* format_currency, format_text_with_currency, get_friendly_field_name     *)
(* and display_analysis_results.                                           *)
(*                                                                         *)
(* Python strings that the code parses or rewrites are sequences of        *)
(* one-character strings; dictionary keys are TLA+ strings.  A Python      *)
(* dict is the sequence of its <<key, value>> items in insertion order.    *)
(* A float is an exact decimal [m, e] standing for m / 10^e, kept          *)
(* normalised (no trailing zero in m while e > 0).                         *)
(***************************************************************************)
EXTENDS Integers, Sequences, FiniteSets, TLC

VARIABLES
    result,              \* the response payload handed to display_analysis_results
    exchange_rate_plus,  \* the buffer, in hundredths (5 stands for 0.05)
    location,            \* the jurisdiction string
    pc,                  \* position in the render pass
    out,                 \* the messages emitted so far, in order
    dates,               \* the four series of the timeline builder
    balances,
    transaction_types,
    amounts,
    chart,               \* the rows handed to the chart (the sorted DataFrame)
    working_mapping,     \* the dict the name details_with_original is bound to
    text,                \* argument of format_text_with_currency
    formatted            \* its return value

vars == <<result, exchange_rate_plus, location, pc, out, dates, balances,
          transaction_types, amounts, chart, working_mapping, text, formatted>>

----------------------------------------------------------------------------
(* Bounds *)

\* longest text handed to format_text_with_currency
MaxLen == 7
\* fractional digits kept by a float division
FloatDigits == 4
\* most keys in calculationDetails
MaxKeys == 3
\* most records in allTransactions
MaxTxns == 3

----------------------------------------------------------------------------
(* Characters and numbers *)

Digits == {"0", "1", "2", "3", "4", "5", "6", "7", "8", "9"}

IsDigit(c) == c \in Digits

DigitVal(c) ==
    CASE c = "0" -> 0 [] c = "1" -> 1 [] c = "2" -> 2 [] c = "3" -> 3
      [] c = "4" -> 4 [] c = "5" -> 5 [] c = "6" -> 6 [] c = "7" -> 7
      [] c = "8" -> 8 [] c = "9" -> 9

DigitChar(d) ==
    CASE d = 0 -> "0" [] d = 1 -> "1" [] d = 2 -> "2" [] d = 3 -> "3"
      [] d = 4 -> "4" [] d = 5 -> "5" [] d = 6 -> "6" [] d = 7 -> "7"
      [] d = 8 -> "8" [] d = 9 -> "9"

RECURSIVE Pow10(_)
Pow10(n) == IF n = 0 THEN 1 ELSE 10 * Pow10(n - 1)

\* the decimal digits of a natural number
RECURSIVE NatToStr(_)
NatToStr(n) ==
    IF n < 10 THEN <<DigitChar(n)>>
    ELSE NatToStr(n \div 10) \o <<DigitChar(n % 10)>>

\* n written with exactly w digits (leading zeros)
RECURSIVE PadDigits(_, _)
PadDigits(n, w) ==
    IF w = 0 THEN <<>>
    ELSE PadDigits(n \div 10, w - 1) \o <<DigitChar(n % 10)>>

\* the value of a sequence of digits
RECURSIVE StrToNat(_)
StrToNat(s) ==
    IF s = <<>> THEN 0
    ELSE 10 * StrToNat(SubSeq(s, 1, Len(s) - 1)) + DigitVal(s[Len(s)])

AllDigits(s) == \A i \in 1..Len(s) : IsDigit(s[i])

\* str.replace(',', '')
RECURSIVE RemoveCommas(_)
RemoveCommas(s) ==
    IF s = <<>> THEN <<>>
    ELSE IF Head(s) = "," THEN RemoveCommas(Tail(s))
    ELSE <<Head(s)>> \o RemoveCommas(Tail(s))

\* a float keeps no trailing zero: 105.00 is 105
RECURSIVE Normalise(_)
Normalise(f) ==
    IF f.e > 0 /\ f.m % 10 = 0 THEN Normalise([m |-> f.m \div 10, e |-> f.e - 1])
    ELSE f

DotPositions(s) == {i \in 1..Len(s) : s[i] = "."}

\* float(s) for the unsigned decimal notations digits, digits.digits,
\* digits. and .digits; everything else raises ValueError (ok = FALSE)
ParseFloat(s) ==
    LET dots == DotPositions(s) IN
    IF Cardinality(dots) > 1 THEN [ok |-> FALSE, m |-> 0, e |-> 0]
    ELSE IF dots = {} THEN
        IF s # <<>> /\ AllDigits(s)
        THEN [ok |-> TRUE, m |-> StrToNat(s), e |-> 0]
        ELSE [ok |-> FALSE, m |-> 0, e |-> 0]
    ELSE
        LET d    == CHOOSE i \in dots : TRUE
            ip   == SubSeq(s, 1, d - 1)
            fp   == SubSeq(s, d + 1, Len(s))
        IN  IF AllDigits(ip) /\ AllDigits(fp) /\ Len(ip) + Len(fp) > 0
            THEN LET f == Normalise([m |-> StrToNat(ip \o fp), e |-> Len(fp)])
                 IN  [ok |-> TRUE, m |-> f.m, e |-> f.e]
            ELSE [ok |-> FALSE, m |-> 0, e |-> 0]

\* round-half-even of n / d
RoundDiv(n, d) ==
    LET q == n \div d
        r == n % d
    IN  IF 2 * r > d THEN q + 1
        ELSE IF 2 * r < d THEN q
        ELSE IF q % 2 = 0 THEN q ELSE q + 1

\* f"{value:.2f}"
Fmt2(f) ==
    LET h == IF f.e <= 2 THEN f.m * Pow10(2 - f.e)
             ELSE RoundDiv(f.m, Pow10(f.e - 2))
    IN  NatToStr(h \div 100) \o <<".">> \o PadDigits(h % 100, 2)

\* str(value) of a float: the shortest notation, one fractional digit at least
StrFloat(f) ==
    IF f.e = 0 THEN NatToStr(f.m) \o <<".", "0">>
    ELSE NatToStr(f.m \div Pow10(f.e)) \o <<".">> \o PadDigits(f.m % Pow10(f.e), f.e)

----------------------------------------------------------------------------
(* format_text_with_currency *)

\* one past the end of the longest run of digits that starts at i
RECURSIVE DigitRunEnd(_, _)
DigitRunEnd(s, i) ==
    IF i <= Len(s) /\ IsDigit(s[i]) THEN DigitRunEnd(s, i + 1) ELSE i

\* the pattern (\d+\.\d{3,}) tried at position i: one past the end of the
\* match, or 0 when it does not match there
MatchEnd(s, i) ==
    LET j == DigitRunEnd(s, i) IN
    IF j > i /\ j <= Len(s) /\ s[j] = "."
    THEN LET k == DigitRunEnd(s, j + 1) IN IF k - (j + 1) >= 3 THEN k ELSE 0
    ELSE 0

\* replace_func: the match as a float, with two decimals
replace_func(match) ==
    LET number == ParseFloat(match) IN
    IF number.ok THEN Fmt2(number) ELSE match

\* re.sub(pattern, replace_func, text), scanning from position i
RECURSIVE SubFrom(_, _)
SubFrom(s, i) ==
    IF i > Len(s) THEN <<>>
    ELSE LET k == MatchEnd(s, i) IN
         IF k # 0 THEN replace_func(SubSeq(s, i, k - 1)) \o SubFrom(s, k)
         ELSE <<s[i]>> \o SubFrom(s, i + 1)

format_text_with_currency(s) == SubFrom(s, 1)

----------------------------------------------------------------------------
(* Python values: str, int, float, bool and None *)

StrV(s)   == [t |-> "str",   s |-> s,    m |-> 0,   e |-> 0,   b |-> FALSE]
IntV(n)   == [t |-> "int",   s |-> <<>>, m |-> n,   e |-> 0,   b |-> FALSE]
FloatV(f) == [t |-> "float", s |-> <<>>, m |-> f.m, e |-> f.e, b |-> FALSE]
BoolV(b)  == [t |-> "bool",  s |-> <<>>, m |-> 0,   e |-> 0,   b |-> b]
NoneV     == [t |-> "none",  s |-> <<>>, m |-> 0,   e |-> 0,   b |-> FALSE]

\* str(value)
PyStr(v) ==
    CASE v.t = "str"   -> v.s
      [] v.t = "int"   -> NatToStr(v.m)
      [] v.t = "float" -> StrFloat(v)
      [] v.t = "bool"  -> IF v.b THEN <<"T", "r", "u", "e">>
                          ELSE <<"F", "a", "l", "s", "e">>
      [] v.t = "none"  -> <<"N", "o", "n", "e">>

\* float(value); ok = FALSE stands for ValueError or TypeError
PyFloat(v) ==
    CASE v.t = "str"   -> ParseFloat(v.s)
      [] v.t = "int"   -> [ok |-> TRUE, m |-> v.m, e |-> 0]
      [] v.t = "float" -> [ok |-> TRUE, m |-> v.m, e |-> v.e]
      [] v.t = "bool"  -> [ok |-> TRUE, m |-> IF v.b THEN 1 ELSE 0, e |-> 0]
      [] v.t = "none"  -> [ok |-> FALSE, m |-> 0, e |-> 0]

\* the truth value of a Python value
Truthy(v) ==
    CASE v.t = "str"   -> v.s # <<>>
      [] v.t = "int"   -> v.m # 0
      [] v.t = "float" -> v.m # 0
      [] v.t = "bool"  -> v.b
      [] v.t = "none"  -> FALSE

\* format_currency(value), as the text an f-string shows
format_currency(v) ==
    IF v.t \in {"int", "float", "bool"} THEN Fmt2(PyFloat(v))
    ELSE IF v.t = "str" THEN
        LET num_value == ParseFloat(RemoveCommas(v.s)) IN
        IF num_value.ok THEN Fmt2(num_value) ELSE v.s
    ELSE PyStr(v)

----------------------------------------------------------------------------
(* Python dicts: the items in insertion order *)

DictKeys(d) == {d[i].k : i \in 1..Len(d)}

DictHas(d, key) == key \in DictKeys(d)

DictGet(d, key) == d[CHOOSE i \in 1..Len(d) : d[i].k = key].v

\* d[key] = value: the value is replaced in place, a new key goes last
RECURSIVE DictReplace(_, _, _)
DictReplace(d, key, value) ==
    IF d = <<>> THEN <<>>
    ELSE <<IF Head(d).k = key THEN [k |-> key, v |-> value] ELSE Head(d)>>
         \o DictReplace(Tail(d), key, value)

DictSet(d, key, value) ==
    IF DictHas(d, key) THEN DictReplace(d, key, value)
    ELSE Append(d, [k |-> key, v |-> value])

\* details.copy()
DictCopy(d) == d

\* details_with_original = details: the two names are bound to one dict
SharedByAssignment == TRUE

\* details_with_original = details.copy(): the copy is a dict of its own
SharedByCopy == FALSE

\* the dict the payload holds once the working mapping has been written to
PayloadAfterWrite(details, working) == IF SharedByCopy THEN working ELSE details

----------------------------------------------------------------------------
(* get_friendly_field_name *)

get_friendly_field_name(field_name) ==
    CASE field_name = "boundAmountDependant_PKR" -> "Living Expense Of Dependent In PKR"
      [] field_name = "boundAmountStudent_PKR"   -> "Living Expense of Student In PKR"
      [] field_name = "dependant"                -> "Dependant"
      [] field_name = "exchangeRateGBP"          -> "Exchange Rate GBP After Addition"
      [] field_name = "locationStatus"           -> "Location Status"
      [] field_name = "tuitionFees_PKR"          -> "Tuition Fees In PKR"
      [] field_name = "universityName"           -> "University Name"
      [] field_name = "exchangeRateGBPOriginal"  -> "Exchange Rate GBP Original From OANDA"
      [] field_name = "exchangeRateAUS"          -> "Exchange Rate AUD After Addition"
      [] field_name = "exchangeRateAUSOriginal"  -> "Exchange Rate AUD Original From OANDA"
      [] field_name = "durationToCheck"          -> "Duration To Check"
      [] field_name = "livingExpense_PKR"        -> "Living Expense In PKR"
      [] field_name = "oneYearFees_PKR"          -> "One Year Fees In PKR"
      [] field_name = "travelExpense_PKR"        -> "Travel Expense In PKR"
      [] OTHER                                   -> field_name

----------------------------------------------------------------------------
(* The jurisdiction *)

LowerChar(c) ==
    CASE c = "A" -> "a" [] c = "B" -> "b" [] c = "C" -> "c" [] c = "D" -> "d"
      [] c = "E" -> "e" [] c = "F" -> "f" [] c = "G" -> "g" [] c = "H" -> "h"
      [] c = "I" -> "i" [] c = "J" -> "j" [] c = "K" -> "k" [] c = "L" -> "l"
      [] c = "M" -> "m" [] c = "N" -> "n" [] c = "O" -> "o" [] c = "P" -> "p"
      [] c = "Q" -> "q" [] c = "R" -> "r" [] c = "S" -> "s" [] c = "T" -> "t"
      [] c = "U" -> "u" [] c = "V" -> "v" [] c = "W" -> "w" [] c = "X" -> "x"
      [] c = "Y" -> "y" [] c = "Z" -> "z" [] OTHER -> c

\* location.lower()
RECURSIVE Lower(_)
Lower(s) == IF s = <<>> THEN <<>> ELSE <<LowerChar(Head(s))>> \o Lower(Tail(s))

is_uk(loc) ==
    Lower(loc) \in {<<"u", "k">>,
                    <<"u", "n", "i", "t", "e", "d", " ", "k", "i", "n", "g", "d", "o", "m">>}

is_australia(loc) ==
    Lower(loc) \in {<<"a", "u", "s", "t", "r", "a", "l", "i", "a">>, <<"a", "u", "s">>}

----------------------------------------------------------------------------
(* The calculation-details view *)

\* exchange_rate / (1 + exchange_rate_plus), the buffer in hundredths
DeriveOriginal(f, plus) ==
    IF f.e <= FloatDigits
    THEN Normalise([m |-> RoundDiv(f.m * 100 * Pow10(FloatDigits - f.e), 100 + plus),
                    e |-> FloatDigits])
    ELSE Normalise([m |-> RoundDiv(f.m * 100, (100 + plus) * Pow10(f.e - FloatDigits)),
                    e |-> FloatDigits])

\* RateKey without the test of the buffer
RateKeyAnyBuffer(details, loc, plus) ==
    IF is_uk(loc) /\ DictHas(details, "exchangeRateGBP")
    THEN "exchangeRateGBP"
    ELSE IF is_australia(loc) /\ DictHas(details, "exchangeRateAUS")
    THEN "exchangeRateAUS"
    ELSE ""

\* the post-buffer key the derivation reads, "" when there is none
RateKey(details, loc, plus) ==
    IF is_uk(loc) /\ DictHas(details, "exchangeRateGBP") /\ plus > 0
    THEN "exchangeRateGBP"
    ELSE IF is_australia(loc) /\ DictHas(details, "exchangeRateAUS") /\ plus > 0
    THEN "exchangeRateAUS"
    ELSE ""

OriginalKey(rateKey) ==
    IF rateKey = "exchangeRateGBP" THEN "exchangeRateGBPOriginal"
    ELSE "exchangeRateAUSOriginal"

\* float(details[key]) raises
DerivationRaises(details, loc, plus) ==
    LET key == RateKey(details, loc, plus) IN
    key # "" /\ ~PyFloat(DictGet(details, key)).ok

\* details_with_original, when the derivation does not raise
details_with_original(details, loc, plus) ==
    LET key == RateKey(details, loc, plus) IN
    IF key = "" THEN DictCopy(details)
    ELSE DictSet(DictCopy(details), OriginalKey(key),
                 FloatV(DeriveOriginal(PyFloat(DictGet(details, key)), plus)))

\* field_order with the UK list for every jurisdiction but Australia
field_order_uk_else(loc) ==
    IF ~is_australia(loc)
    THEN <<"exchangeRateGBPOriginal", "exchangeRateGBP", "dependant",
           "boundAmountStudent_PKR", "boundAmountDependant_PKR", "locationStatus",
           "tuitionFees_PKR", "universityName">>
    ELSE <<"exchangeRateAUSOriginal", "exchangeRateAUS", "durationToCheck",
           "livingExpense_PKR", "oneYearFees_PKR", "travelExpense_PKR">>

field_order(loc) ==
    IF is_uk(loc)
    THEN <<"exchangeRateGBPOriginal", "exchangeRateGBP", "dependant",
           "boundAmountStudent_PKR", "boundAmountDependant_PKR", "locationStatus",
           "tuitionFees_PKR", "universityName">>
    ELSE <<"exchangeRateAUSOriginal", "exchangeRateAUS", "durationToCheck",
           "livingExpense_PKR", "oneYearFees_PKR", "travelExpense_PKR">>

Range(s) == {s[i] : i \in 1..Len(s)}

excluded_fields == {"totalAmountToCheck", "insideLondon"}

\* details.get("dependant", False)
has_dependant(details) ==
    IF DictHas(details, "dependant") THEN Truthy(DictGet(details, "dependant"))
    ELSE FALSE

\* SkipDependant without the test of the jurisdiction
SkipDependantAnywhere(uk, dependant, key) ==
    ~dependant /\ key = "boundAmountDependant_PKR"

\* the rule that skips boundAmountDependant_PKR
SkipDependant(uk, dependant, key) ==
    uk /\ ~dependant /\ key = "boundAmountDependant_PKR"

Item(sec, kind, key, label, txt) ==
    [sec |-> sec, kind |-> kind, key |-> key, label |-> label, text |-> txt]

\* st.write(f"**{friendly_name}:** {formatted_value}")
FieldItem(key, value) ==
    Item("details", "write", key, get_friendly_field_name(key),
         IF key = "dependant"
         THEN (IF Truthy(value) THEN <<"Y", "e", "s">> ELSE <<"N", "o">>)
         ELSE format_text_with_currency(PyStr(value)))

\* for key in field_order, from position i on
RECURSIVE OrderedPass(_, _, _, _, _)
OrderedPass(order, i, working, uk, dependant) ==
    IF i > Len(order) THEN <<>>
    ELSE LET key == order[i] IN
         (IF /\ DictHas(working, key)
             /\ key \notin excluded_fields
             /\ ~SkipDependant(uk, dependant, key)
          THEN <<FieldItem(key, DictGet(working, key))>>
          ELSE <<>>)
         \o OrderedPass(order, i + 1, working, uk, dependant)

\* for key, value in details_with_original.items(), from position i on;
\* excluded is the set the loop tests the key against
RECURSIVE RemainingPass(_, _, _, _, _, _)
RemainingPass(working, i, order, excluded, uk, dependant) ==
    IF i > Len(working) THEN <<>>
    ELSE LET key == working[i].k IN
         (IF /\ key \notin Range(order)
             /\ key \notin excluded
             /\ ~SkipDependant(uk, dependant, key)
          THEN <<FieldItem(key, working[i].v)>>
          ELSE <<>>)
         \o RemainingPass(working, i + 1, order, excluded, uk, dependant)

\* everything the expander shows after its separator
DetailsItems(details, loc, plus) ==
    LET working   == details_with_original(details, loc, plus)
        order     == field_order(loc)
        uk        == is_uk(loc)
        dependant == has_dependant(details)
    IN  OrderedPass(order, 1, working, uk, dependant)
        \o RemainingPass(working, 1, order, excluded_fields, uk, dependant)
        \o RemainingPass(working, 1, order, {"insideLondon"}, uk, dependant)

----------------------------------------------------------------------------
(* The transaction timeline *)

DashPositions(s) == {i \in 1..Len(s) : s[i] = "-"}

DaysInMonth(y, mo) ==
    IF mo \in {4, 6, 9, 11} THEN 30
    ELSE IF mo # 2 THEN 31
    ELSE IF (y % 4 = 0 /\ y % 100 # 0) \/ y % 400 = 0 THEN 29 ELSE 28

\* datetime.strptime(s, '%Y-%m-%d'): ok = FALSE stands for ValueError;
\* a date is the number yyyymmdd
ParseDate(s) ==
    LET dashes == DashPositions(s) IN
    IF Cardinality(dashes) # 2 THEN [ok |-> FALSE, ord |-> 0]
    ELSE
        LET d1 == CHOOSE i \in dashes : \A j \in dashes : i <= j
            d2 == CHOOSE i \in dashes : \A j \in dashes : j <= i
            ys == SubSeq(s, 1, d1 - 1)
            ms == SubSeq(s, d1 + 1, d2 - 1)
            ds == SubSeq(s, d2 + 1, Len(s))
        IN  IF /\ AllDigits(ys) /\ Len(ys) = 4
               /\ AllDigits(ms) /\ Len(ms) \in 1..2
               /\ AllDigits(ds) /\ Len(ds) \in 1..2
               /\ StrToNat(ys) >= 1
               /\ StrToNat(ms) \in 1..12
               /\ StrToNat(ds) \in 1..DaysInMonth(StrToNat(ys), StrToNat(ms))
            THEN [ok |-> TRUE,
                  ord |-> StrToNat(ys) * 10000 + StrToNat(ms) * 100 + StrToNat(ds)]
            ELSE [ok |-> FALSE, ord |-> 0]

\* trans.get(key, default) for the four keys the builder reads
GetDate(trans)    == IF trans.hasDate THEN trans.date ELSE <<>>
GetBalance(trans) == IF trans.hasBalance THEN trans.balance ELSE StrV(<<"0">>)
GetType(trans)    == IF trans.hasType THEN trans.ttype ELSE "Unknown"
GetAmount(trans)  == IF trans.hasAmount THEN trans.amount ELSE StrV(<<"0">>)

\* float(str(balance_str).replace(',', ''))
ParseBalance(balance_str) == ParseFloat(RemoveCommas(PyStr(balance_str)))

EmptySeries ==
    [dates |-> <<>>, balances |-> <<>>, transaction_types |-> <<>>, amounts |-> <<>>]

\* one pass of the body of "for trans in transactions"
BuildStep(acc, trans) ==
    LET date_str == GetDate(trans) IN
    IF date_str = <<>> THEN acc
    ELSE
        LET date == ParseDate(date_str) IN
        IF ~date.ok THEN acc
        ELSE
            LET dated   == [acc EXCEPT !.dates = Append(@, date.ord)]
                balance == ParseBalance(GetBalance(trans))
            IN  IF ~balance.ok THEN dated
                ELSE [dated EXCEPT
                        !.balances = Append(@, [m |-> balance.m, e |-> balance.e]),
                        !.transaction_types = Append(@, GetType(trans)),
                        !.amounts = Append(@, GetAmount(trans))]

RECURSIVE BuildSeries(_)
BuildSeries(transactions) ==
    IF transactions = <<>> THEN EmptySeries
    ELSE BuildStep(BuildSeries(SubSeq(transactions, 1, Len(transactions) - 1)),
                   transactions[Len(transactions)])

\* pd.DataFrame raises ValueError when the columns differ in length
DataFrameRaises(series) ==
    \/ Len(series.dates) # Len(series.balances)
    \/ Len(series.dates) # Len(series.transaction_types)
    \/ Len(series.dates) # Len(series.amounts)

\* the first n rows of pd.DataFrame({...})
RECURSIVE DataFrameRows(_, _)
DataFrameRows(series, n) ==
    IF n = 0 THEN <<>>
    ELSE Append(DataFrameRows(series, n - 1),
                [Date    |-> series.dates[n],
                 Balance |-> series.balances[n],
                 Type    |-> series.transaction_types[n],
                 Amount  |-> series.amounts[n]])

DataFrame(series) == DataFrameRows(series, Len(series.dates))

\* the rows p[1], ..., p[n] of rows
RECURSIVE Reorder(_, _, _)
Reorder(rows, p, n) ==
    IF n = 0 THEN <<>> ELSE Append(Reorder(rows, p, n - 1), rows[p[n]])

IsSortedByDate(rows) ==
    \A i \in 1..Len(rows) : \A j \in 1..Len(rows) : i < j => rows[i].Date <= rows[j].Date

\* df.sort_values('Date'): the default sort is not stable, so every order
\* of the rows that is ascending by date is a possible outcome
\* SortValues with the sort left out
SortValuesUnsorted(rows) == {rows}

SortValues(rows) ==
    {sorted \in {Reorder(rows, p, Len(rows)) : p \in Permutations(1..Len(rows))} :
        IsSortedByDate(sorted)}

\* one line of the "Transaction Details" list
TransactionLine(trans) ==
    Item("transactions", "write", "transaction",
         IF trans.hasType THEN trans.ttype ELSE "N/A",
         (IF trans.hasDate THEN trans.date ELSE <<"N", "/", "A">>)
         \o <<" ">>
         \o format_currency(IF trans.hasAmount THEN trans.amount
                            ELSE StrV(<<"N", "/", "A">>))
         \o <<" ">>
         \o format_currency(IF trans.hasBalance THEN trans.balance
                            ELSE StrV(<<"N", "/", "A">>)))

RECURSIVE TransactionLines(_)
TransactionLines(transactions) ==
    IF transactions = <<>> THEN <<>>
    ELSE <<TransactionLine(Head(transactions))>> \o TransactionLines(Tail(transactions))

\* the second chart, with the required amount drawn in
HasBoundOverlay(res) ==
    /\ res.info.present
    /\ res.info.hasBound
    /\ res.info.boundAmount.t \in {"int", "float", "bool"}

----------------------------------------------------------------------------
(* The Information and Issues sections *)

InformationItems(info) ==
    <<Item("info", IF info.verdict = "Original" THEN "success" ELSE "error",
           "verdict", info.verdict, <<>>)>>
    \o (IF info.hasFund
        THEN IF info.isMaintained
             THEN <<Item("info", "success", "fundMaintenance", "sufficient", <<>>)>>
                  \o (IF info.hasSummary
                      THEN <<Item("info", "write", "finalSummary", "",
                                  format_text_with_currency(info.finalSummary))>>
                      ELSE <<>>)
             ELSE <<Item("info", "error", "fundMaintenance", "not sufficient", <<>>)>>
        ELSE <<>>)
    \o <<Item("info", "info", "exchangeRateSource", "OANDA", <<>>),
         Item("info", "info", "accountType", "N/A", <<>>),
         Item("info", "info", "statementPeriod", "N/A", <<>>),
         Item("info", "info", "statementPeriodDuration", "N/A", <<>>),
         Item("info", "info", "boundAmount", "",
              IF info.hasBound THEN format_currency(info.boundAmount)
              ELSE <<"N", "/", "A">>),
         Item("info", "write", "explanationTitle", "Explanation:", <<>>),
         Item("info", "write", "explanation",
              IF info.hasExplanation THEN "" ELSE "No explanation provided",
              IF info.hasExplanation THEN format_text_with_currency(info.explanation)
              ELSE <<>>)>>

\* the details of one issue, from position i on: None values are skipped
RECURSIVE IssueDetailItems(_, _)
IssueDetailItems(details, i) ==
    IF i > Len(details) THEN <<>>
    ELSE (IF details[i].v.t # "none"
          THEN <<Item("issues", "write", details[i].k, "",
                      format_text_with_currency(PyStr(details[i].v)))>>
          ELSE <<>>)
         \o IssueDetailItems(details, i + 1)

IssueItems(issue) ==
    <<Item("issues", "expander", "issue", "", <<>>),
      Item("issues", "write", "message", "", format_text_with_currency(issue.message))>>
    \o (IF issue.hasDetails
        THEN <<Item("issues", "write", "detailsTitle", "Details:", <<>>)>>
             \o IssueDetailItems(issue.details, 1)
        ELSE <<>>)

RECURSIVE IssuesItems(_)
IssuesItems(issues) ==
    IF issues = <<>> THEN <<>>
    ELSE IssueItems(Head(issues)) \o IssuesItems(Tail(issues))

----------------------------------------------------------------------------
(* The responses and request contexts display_analysis_results is given *)

\* formatted, before format_text_with_currency has returned
NoText == <<"-">>

LocationUK            == <<"U", "K">>
LocationUnitedKingdom == <<"U", "n", "i", "t", "e", "d", " ", "K", "i", "n", "g", "d", "o", "m">>
LocationAustralia     == <<"A", "u", "s", "t", "r", "a", "l", "i", "a">>
LocationAus           == <<"a", "u", "s">>
\* a string that names neither jurisdiction
LocationOther         == <<"C", "a", "n", "a", "d", "a">>

\* the last one is the default of the parameter, location=""
Locations ==
    {LocationUK, LocationUnitedKingdom, LocationAustralia, LocationAus,
     LocationOther, <<>>}

\* the buffer in hundredths: none, and the form's default of 5 percent
Buffers == {0, 5}

DetailKeys ==
    {"exchangeRateGBP", "exchangeRateAUS", "dependant", "boundAmountDependant_PKR",
     "totalAmountToCheck", "insideLondon"}

\* the orders in which up to n distinct keys can be inserted
RECURSIVE KeySeqs(_)
KeySeqs(n) ==
    IF n = 0 THEN {<<>>}
    ELSE LET shorter == KeySeqs(n - 1) IN
         shorter \cup {Append(ks, k) : ks \in {x \in shorter : Len(x) = n - 1},
                                       k \in DetailKeys}

DistinctKeySeqs(n) == {ks \in KeySeqs(n) : Cardinality(Range(ks)) = Len(ks)}

\* the post-buffer rate as the service sends it: 105.00, 100.00, or not a number
RateValues ==
    {StrV(<<"1", "0", "5", ".", "0", "0">>),
     StrV(<<"1", "0", "0", ".", "0", "0">>),
     StrV(<<"a", "b", "c">>)}

ValueOf(key, rate, dep) ==
    CASE key = "exchangeRateGBP"          -> rate
      [] key = "exchangeRateAUS"          -> rate
      [] key = "dependant"                -> BoolV(dep)
      [] key = "boundAmountDependant_PKR" -> IntV(500)
      [] key = "totalAmountToCheck"       -> StrV(<<"9", "0", ".", "1", "2", "3", "4">>)
      [] key = "insideLondon"             -> BoolV(TRUE)

RECURSIVE MakeDetails(_, _, _)
MakeDetails(ks, rate, dep) ==
    IF ks = <<>> THEN <<>>
    ELSE <<[k |-> Head(ks), v |-> ValueOf(Head(ks), rate, dep)]>>
         \o MakeDetails(Tail(ks), rate, dep)

Date0301 == <<"2", "0", "2", "4", "-", "0", "3", "-", "0", "1">>
Date0105 == <<"2", "0", "2", "4", "-", "0", "1", "-", "0", "5">>

DateOptions == {"0301", "0105", "bad", "missing"}

BalanceOptions == {"number", "bad", "missing"}

\* the i-th record of a list: its amount, balance and type tell it from the others
TxnAt(i, dateOpt, balOpt) ==
    [hasDate    |-> dateOpt # "missing",
     date       |-> CASE dateOpt = "0301" -> Date0301
                      [] dateOpt = "0105" -> Date0105
                      [] dateOpt = "bad" -> <<"b", "a", "d">>
                      [] dateOpt = "missing" -> <<>>,
     hasBalance |-> balOpt # "missing",
     balance    |-> CASE balOpt = "number" -> StrV(<<DigitChar(i), ",", "0", "0", "0", ".", "0", "0">>)
                      [] balOpt = "bad" -> StrV(<<"x">>)
                      [] balOpt = "missing" -> NoneV,
     hasType    |-> i % 3 # 0,
     ttype      |-> IF i % 3 = 0 THEN "" ELSE IF i % 2 = 1 THEN "Credit" ELSE "Debit",
     hasAmount  |-> TRUE,
     amount     |-> StrV(<<DigitChar(i), "0">>)]

\* n records, their dates and balances chosen by d and b
RECURSIVE MakeTxns(_, _, _)
MakeTxns(n, d, b) ==
    IF n = 0 THEN <<>> ELSE Append(MakeTxns(n - 1, d, b), TxnAt(n, d[n], b[n]))

GoodTxns == <<TxnAt(1, "0301", "number"), TxnAt(2, "0105", "number")>>

BadBalanceTxns == <<TxnAt(1, "0301", "number"), TxnAt(2, "0105", "bad")>>

\* 2024-03-01, 2024-01-05 and a malformed third record
ExampleTxns ==
    <<TxnAt(1, "0301", "number"), TxnAt(2, "0105", "number"), TxnAt(3, "bad", "bad")>>

NoInfo ==
    [present |-> FALSE, verdict |-> "", hasFund |-> FALSE, isMaintained |-> FALSE,
     hasSummary |-> FALSE, finalSummary |-> <<>>, hasBound |-> FALSE,
     boundAmount |-> NoneV, hasExplanation |-> FALSE, explanation |-> <<>>]

InfoOriginal ==
    [present |-> TRUE, verdict |-> "Original", hasFund |-> TRUE, isMaintained |-> TRUE,
     hasSummary |-> TRUE, finalSummary |-> <<"9", "0", ".", "9", "9", "9">>,
     hasBound |-> TRUE, boundAmount |-> IntV(900),
     hasExplanation |-> TRUE, explanation |-> <<"o", "k">>]

InfoFake ==
    [present |-> TRUE, verdict |-> "Fake", hasFund |-> TRUE, isMaintained |-> FALSE,
     hasSummary |-> FALSE, finalSummary |-> <<>>, hasBound |-> FALSE,
     boundAmount |-> NoneV, hasExplanation |-> FALSE, explanation |-> <<>>]

OneIssue ==
    <<[message    |-> <<"o", "f", "f", " ", "1", ".", "0", "0", "9">>,
       hasDetails |-> TRUE,
       details    |-> <<[k |-> "page", v |-> NoneV], [k |-> "found", v |-> IntV(2)]>>]>>

GoodDetails ==
    MakeDetails(<<"exchangeRateGBP", "dependant", "boundAmountDependant_PKR">>,
                StrV(<<"1", "0", "5", ".", "0", "0">>), FALSE)

BadRateDetails ==
    MakeDetails(<<"exchangeRateGBP", "dependant">>, StrV(<<"a", "b", "c">>), TRUE)

Response(err, info, hasIssues, issues, hasDetails, details, hasTxns, txns) ==
    [hasError   |-> err,
     error      |-> IF err THEN <<"t", "i", "m", "e", "o", "u", "t">> ELSE <<>>,
     info       |-> info,
     hasIssues  |-> hasIssues,
     issues     |-> issues,
     hasDetails |-> hasDetails,
     details    |-> details,
     hasTxns    |-> hasTxns,
     txns       |-> txns]

OptionalIssues == {[has |-> FALSE, v |-> <<>>], [has |-> TRUE, v |-> <<>>],
                   [has |-> TRUE, v |-> OneIssue]}

OptionalDetails == {[has |-> FALSE, v |-> <<>>], [has |-> TRUE, v |-> GoodDetails],
                    [has |-> TRUE, v |-> BadRateDetails]}

OptionalTxns == {[has |-> FALSE, v |-> <<>>], [has |-> TRUE, v |-> <<>>],
                 [has |-> TRUE, v |-> GoodTxns], [has |-> TRUE, v |-> BadBalanceTxns],
                 [has |-> TRUE, v |-> ExampleTxns]}

----------------------------------------------------------------------------
(* display_analysis_results *)

Start(res, loc, plus) ==
    /\ result = res
    /\ location = loc
    /\ exchange_rate_plus = plus
    /\ pc = "entry"
    /\ out = <<>>
    /\ dates = <<>>
    /\ balances = <<>>
    /\ transaction_types = <<>>
    /\ amounts = <<>>
    /\ chart = <<>>
    /\ working_mapping = <<>>
    /\ text = <<>>
    /\ formatted = NoText

\* every calculationDetails mapping, in every jurisdiction, with and without buffer
DetailsCalls ==
    \E ks \in DistinctKeySeqs(MaxKeys), rate \in RateValues, dep \in BOOLEAN,
       loc \in Locations, plus \in Buffers :
        Start(Response(FALSE, InfoOriginal, FALSE, <<>>, TRUE, MakeDetails(ks, rate, dep),
                       TRUE, GoodTxns), loc, plus)

\* every transaction list
TimelineCalls ==
    \E n \in 0..MaxTxns :
        \E d \in [1..n -> DateOptions], b \in [1..n -> BalanceOptions] :
            Start(Response(FALSE, InfoOriginal, FALSE, <<>>, FALSE, <<>>, TRUE,
                           MakeTxns(n, d, b)),
                  LocationUnitedKingdom, 5)

\* every combination of present and absent sections, well-formed and malformed
SectionCalls ==
    \E err \in BOOLEAN, info \in {NoInfo, InfoOriginal, InfoFake},
       i \in OptionalIssues, d \in OptionalDetails, t \in OptionalTxns :
        Start(Response(err, info, i.has, i.v, d.has, d.v, t.has, t.v), LocationUK, 5)

Init == DetailsCalls \/ TimelineCalls \/ SectionCalls

ErrorItem(res) == Item("error", "error", "error", "Error", res.error)

\* ErrorExit with the return statement left out
ErrorFallThrough == "info"

\* where the render pass goes once the error is shown: the return statement
ErrorExit == "done"

\* if "error" in result
CheckError ==
    /\ pc = "entry"
    /\ IF result.hasError
       THEN /\ out' = Append(out, ErrorItem(result))
            /\ pc' = ErrorExit
       ELSE /\ out' = out
            /\ pc' = "info"
    /\ UNCHANGED <<result, exchange_rate_plus, location, dates, balances,
                   transaction_types, amounts, chart, working_mapping, text,
                   formatted>>

\* if "Information" in result
DisplayInformation ==
    /\ pc = "info"
    /\ out' = IF result.info.present THEN out \o InformationItems(result.info) ELSE out
    /\ pc' = "issues"
    /\ UNCHANGED <<result, exchange_rate_plus, location, dates, balances,
                   transaction_types, amounts, chart, working_mapping, text,
                   formatted>>

\* if "Issues" in result and result["Issues"]
DisplayIssues ==
    /\ pc = "issues"
    /\ out' = IF result.hasIssues /\ result.issues # <<>>
              THEN out \o <<Item("issues", "error", "issuesFound", "Issues Found:", <<>>)>>
                       \o IssuesItems(result.issues)
              ELSE out
    /\ pc' = "details"
    /\ UNCHANGED <<result, exchange_rate_plus, location, dates, balances,
                   transaction_types, amounts, chart, working_mapping, text,
                   formatted>>

DetailsHeader ==
    <<Item("details", "expander", "calculationDetails", "Calculation Details", <<>>),
      Item("details", "markdown", "separator", "---", <<>>)>>

\* if "calculationDetails" in result; a float() that raises ends the pass,
\* with the copy made and nothing written to it
DisplayCalculationDetails ==
    /\ pc = "details"
    /\ IF ~result.hasDetails
       THEN /\ out' = out
            /\ working_mapping' = working_mapping
            /\ result' = result
            /\ pc' = "transactions"
       ELSE IF DerivationRaises(result.details, location, exchange_rate_plus)
       THEN /\ out' = out \o DetailsHeader
            /\ working_mapping' = DictCopy(result.details)
            /\ result' = result
            /\ pc' = "raised"
       ELSE /\ out' = out \o DetailsHeader
                          \o DetailsItems(result.details, location, exchange_rate_plus)
            /\ working_mapping' =
                    details_with_original(result.details, location, exchange_rate_plus)
            /\ result' = [result EXCEPT
                            !.details = PayloadAfterWrite(@, working_mapping')]
            /\ pc' = "transactions"
    /\ UNCHANGED <<exchange_rate_plus, location, dates, balances,
                   transaction_types, amounts, chart, text, formatted>>

TransactionsHeader(transactions) ==
    <<Item("transactions", "expander", "allTransactions", "All Transactions", <<>>),
      Item("transactions", "write", "total", "Total transactions:",
           NatToStr(Len(transactions)))>>

ChartItems(res) ==
    <<Item("transactions", "plotly_chart", "chart", "Account Balance Over Time", <<>>)>>
    \o (IF HasBoundOverlay(res)
        THEN <<Item("transactions", "plotly_chart", "chart_with_bound",
                    "Required Amount", format_currency(res.info.boundAmount))>>
        ELSE <<>>)

TransactionsFooter(transactions) ==
    <<Item("transactions", "markdown", "separator", "---", <<>>),
      Item("transactions", "write", "detailsTitle", "Transaction Details:", <<>>)>>
    \o TransactionLines(transactions)

\* if "allTransactions" in result and result["allTransactions"]; a DataFrame
\* that raises ends the pass
DisplayAllTransactions ==
    /\ pc = "transactions"
    /\ IF ~(result.hasTxns /\ result.txns # <<>>)
       THEN /\ pc' = "done"
            /\ UNCHANGED <<out, dates, balances, transaction_types, amounts, chart>>
       ELSE LET transactions == result.txns
                series       == BuildSeries(transactions)
                head         == out \o TransactionsHeader(transactions)
            IN  /\ dates' = series.dates
                /\ balances' = series.balances
                /\ transaction_types' = series.transaction_types
                /\ amounts' = series.amounts
                /\ IF series.dates # <<>> /\ series.balances # <<>>
                   THEN IF DataFrameRaises(series)
                        THEN /\ out' = head
                             /\ chart' = chart
                             /\ pc' = "raised"
                        ELSE /\ chart' \in SortValues(DataFrame(series))
                             /\ out' = head \o ChartItems(result)
                                            \o TransactionsFooter(transactions)
                             /\ pc' = "done"
                   ELSE /\ out' = head \o TransactionsFooter(transactions)
                        /\ chart' = chart
                        /\ pc' = "done"
    /\ UNCHANGED <<result, exchange_rate_plus, location, working_mapping, text,
                   formatted>>

Next ==
    \/ CheckError
    \/ DisplayInformation
    \/ DisplayIssues
    \/ DisplayCalculationDetails
    \/ DisplayAllTransactions

Spec == Init /\ [][Next]_vars

----------------------------------------------------------------------------
(* The texts format_text_with_currency is applied to.  No digit 5: a       *)
(* decimal tie, whose rounding depends on the binary value, cannot occur.  *)

TextChars == {"0", "9", ".", "x"}

RECURSIVE TextsOfLen(_)
TextsOfLen(n) ==
    IF n = 0 THEN {<<>>}
    ELSE {Append(t, c) : t \in TextsOfLen(n - 1), c \in TextChars}

FormatInit ==
    /\ \E n \in 0..MaxLen : text \in TextsOfLen(n)
    /\ formatted = NoText
    /\ pc = "format"
    /\ result = <<>>
    /\ exchange_rate_plus = 0
    /\ location = <<>>
    /\ out = <<>>
    /\ dates = <<>>
    /\ balances = <<>>
    /\ transaction_types = <<>>
    /\ amounts = <<>>
    /\ chart = <<>>
    /\ working_mapping = <<>>

FormatText ==
    /\ pc = "format"
    /\ formatted' = format_text_with_currency(text)
    /\ pc' = "formatted"
    /\ UNCHANGED <<result, exchange_rate_plus, location, out, dates, balances,
                   transaction_types, amounts, chart, working_mapping, text>>

FormatNext == FormatText

SpecFormat == FormatInit /\ [][FormatNext]_vars

----------------------------------------------------------------------------
(* Properties of display_analysis_results *)

\* the keys of the fields the calculation-details view has emitted, in order
RECURSIVE FieldKeys(_)
FieldKeys(items) ==
    IF items = <<>> THEN <<>>
    ELSE (IF Head(items).sec = "details" /\ Head(items).kind = "write"
          THEN <<Head(items).key>> ELSE <<>>)
         \o FieldKeys(Tail(items))

Occurrences(ks, key) == Cardinality({i \in 1..Len(ks) : ks[i] = key})

PositionIn(seq, x) == CHOOSE i \in 1..Len(seq) : seq[i] = x

\* the calculation-details view has been rendered to its end
DetailsRendered ==
    ~result.hasError /\ result.hasDetails /\ pc \in {"transactions", "done"}

\* the timeline builder has run over a non-empty transaction list
TimelineBuilt == \E i \in 1..Len(out) : out[i].sec = "transactions"

HasItem(sec, key) == \E i \in 1..Len(out) : out[i].sec = sec /\ out[i].key = key

\* C1: a response that contains the key "error", whatever else it contains,
\* yields exactly one message, the error message, and no other section
C1_ErrorOnly ==
    (result.hasError /\ pc # "entry") =>
        /\ pc = "done"
        /\ out = <<ErrorItem(result)>>
        /\ chart = <<>>

C1_Witness ==
    /\ result.hasError
    /\ pc = "done"
    /\ result.info.present
    /\ result.hasIssues /\ result.issues # <<>>
    /\ result.hasDetails
    /\ result.hasTxns /\ result.txns # <<>>

\* C2: a key of the exclusion set (totalAmountToCheck, insideLondon) is never
\* emitted in the calculation-details view, by none of its passes
C2_ExcludedNeverShown ==
    \A key \in excluded_fields : Occurrences(FieldKeys(out), key) = 0

\* C3: the view emits every key of the working mapping exactly once, except
\* the excluded keys and the key the dependant rule suppresses, which are
\* emitted zero times; it emits nothing else
C3_EachKeyOnce ==
    DetailsRendered =>
        LET working == details_with_original(result.details, location, exchange_rate_plus)
            emitted == FieldKeys(out)
        IN  /\ \A key \in DictKeys(working) :
                Occurrences(emitted, key) =
                    IF \/ key \in excluded_fields
                       \/ SkipDependant(is_uk(location), has_dependant(result.details), key)
                    THEN 0 ELSE 1
            /\ Range(emitted) \subseteq DictKeys(working)

\* the points the transactions with a parseable date and a parseable balance
\* of their own give, in the order of the list
RECURSIVE C4_Points(_)
C4_Points(transactions) ==
    IF transactions = <<>> THEN <<>>
    ELSE LET trans == Head(transactions) IN
         (IF /\ trans.hasDate /\ ParseDate(trans.date).ok
             /\ trans.hasBalance /\ ParseBalance(trans.balance).ok
          THEN <<[Date    |-> ParseDate(trans.date).ord,
                  Balance |-> [m |-> ParseBalance(trans.balance).m,
                               e |-> ParseBalance(trans.balance).e],
                  Type    |-> GetType(trans),
                  Amount  |-> GetAmount(trans)]>>
          ELSE <<>>)
         \o C4_Points(Tail(transactions))

\* C4: the builder yields exactly one point per transaction with a parseable
\* date and a parseable balance and nothing for any other record, so the four
\* series have equal length
C4_OnePointPerParseableRecord ==
    TimelineBuilt =>
        LET points == C4_Points(result.txns) IN
        /\ Len(dates) = Len(points)
        /\ Len(balances) = Len(points)
        /\ Len(transaction_types) = Len(points)
        /\ Len(amounts) = Len(points)
        /\ \A i \in 1..Len(points) :
            /\ dates[i] = points[i].Date
            /\ balances[i] = points[i].Balance
            /\ transaction_types[i] = points[i].Type
            /\ amounts[i] = points[i].Amount

\* C5: without an error key, a malformed value in one section keeps no
\* present section from being rendered, later sections included
C5_EverySectionRendered ==
    (~result.hasError /\ pc \in {"done", "raised"}) =>
        /\ result.info.present => HasItem("info", "verdict")
        /\ (result.hasIssues /\ result.issues # <<>>) => HasItem("issues", "issuesFound")
        /\ result.hasDetails => HasItem("details", "calculationDetails")
        /\ (result.hasTxns /\ result.txns # <<>>) =>
                /\ HasItem("transactions", "allTransactions")
                /\ HasItem("transactions", "detailsTitle")

\* C6: emitted keys of the ordering list come before emitted keys outside it,
\* in the declared order; the other keys come in the mapping's own order
C6_OrderedThenMappingOrder ==
    DetailsRendered =>
        LET working == details_with_original(result.details, location, exchange_rate_plus)
            order   == field_order(location)
            emitted == FieldKeys(out)
        IN  \A i \in 1..Len(emitted) : \A j \in 1..Len(emitted) :
                i < j =>
                    /\ ~(emitted[i] \notin Range(order) /\ emitted[j] \in Range(order))
                    /\ (emitted[i] \in Range(order) /\ emitted[j] \in Range(order)) =>
                            PositionIn(order, emitted[i]) < PositionIn(order, emitted[j])
                    /\ (emitted[i] \notin Range(order) /\ emitted[j] \notin Range(order)) =>
                            PositionIn(working, [k |-> emitted[i], v |-> DictGet(working, emitted[i])])
                            <= PositionIn(working, [k |-> emitted[j], v |-> DictGet(working, emitted[j])])

\* C7: in the UK, with the dependant field false or absent,
\* boundAmountDependant_PKR is never emitted; with the field true, or outside
\* the UK, the key is emitted when the mapping has it
C7_DependantRule ==
    DetailsRendered =>
        LET dependantTrue == /\ DictHas(result.details, "dependant")
                             /\ DictGet(result.details, "dependant") = BoolV(TRUE)
            shown == Occurrences(FieldKeys(out), "boundAmountDependant_PKR") > 0
        IN  /\ (is_uk(location) /\ ~dependantTrue) => ~shown
            /\ ((~is_uk(location) \/ dependantTrue)
                    /\ DictHas(result.details, "boundAmountDependant_PKR")) => shown

C7_Witness ==
    /\ DetailsRendered
    /\ is_uk(location)
    /\ DictHas(result.details, "boundAmountDependant_PKR")
    /\ DictHas(result.details, "dependant")
    /\ DictGet(result.details, "dependant") = BoolV(FALSE)
    /\ Len(FieldKeys(out)) > 0

\* the records the builder keeps, as it reads them: the date parses, and so
\* does the balance (a record without a balance reads as "0")
RECURSIVE C8_Survivors(_)
C8_Survivors(transactions) ==
    IF transactions = <<>> THEN <<>>
    ELSE LET trans == Head(transactions) IN
         (IF ParseDate(GetDate(trans)).ok /\ ParseBalance(GetBalance(trans)).ok
          THEN <<[Date    |-> ParseDate(GetDate(trans)).ord,
                  Balance |-> [m |-> ParseBalance(GetBalance(trans)).m,
                               e |-> ParseBalance(GetBalance(trans)).e],
                  Type    |-> GetType(trans),
                  Amount  |-> GetAmount(trans)]>>
          ELSE <<>>)
         \o C8_Survivors(Tail(transactions))

C9_OriginalRateTwoDecimals ==
    DetailsRendered =>
        LET rateKey == RateKey(result.details, location, exchange_rate_plus) IN
        /\ rateKey # "" =>
            \E i \in 1..Len(out) :
                /\ out[i].sec = "details"
                /\ out[i].key = OriginalKey(rateKey)
                /\ out[i].text = Fmt2(DeriveOriginal(PyFloat(DictGet(result.details, rateKey)),
                                                     exchange_rate_plus))
        /\ (result.details = GoodDetails /\ is_uk(location) /\ exchange_rate_plus = 5) =>
            \E i \in 1..Len(out) :
                /\ out[i].sec = "details"
                /\ out[i].key = "exchangeRateGBPOriginal"
                /\ out[i].text = <<"1", "0", "0", ".", "0", "0">>

\* the calculation-details section has been entered and left, by its end or
\* by an exception
DetailsLeft ==
    /\ ~result.hasError
    /\ result.hasDetails
    /\ pc \in {"transactions", "done", "raised"}

\* the jurisdiction's post-buffer key, when the mapping has it
PresentRateKey ==
    IF is_uk(location) /\ DictHas(result.details, "exchangeRateGBP")
    THEN "exchangeRateGBP"
    ELSE IF ~is_uk(location) /\ is_australia(location)
            /\ DictHas(result.details, "exchangeRateAUS")
    THEN "exchangeRateAUS"
    ELSE ""

\* the keys the working mapping has and the payload's mapping has not
SyntheticKeys == DictKeys(working_mapping) \ DictKeys(result.details)

\* the keys of the payload's mapping the view is to show
ShownKeys ==
    {key \in DictKeys(result.details) :
        /\ key \notin excluded_fields
        /\ ~SkipDependant(is_uk(location), has_dependant(result.details), key)}

\* C11: when the post-buffer rate of the jurisdiction is no number, the
\* derivation is skipped for that field alone: no synthetic key is inserted,
\* the other fields of the calculation details are rendered, and the render
\* pass does not fail
C11_UnparseableRateSkipped ==
    (/\ DetailsLeft
     /\ exchange_rate_plus > 0
     /\ PresentRateKey # ""
     /\ ~PyFloat(DictGet(result.details, PresentRateKey)).ok) =>
        /\ SyntheticKeys = {}
        /\ \A key \in ShownKeys : Occurrences(FieldKeys(out), key) > 0
        /\ pc = "raised" => HasItem("transactions", "allTransactions")

\* the value of the jurisdiction's post-buffer key is a number
PresentRateParses ==
    PresentRateKey # "" /\ PyFloat(DictGet(result.details, PresentRateKey)).ok

\* C12, as stated: a synthetic original-rate key is inserted into the working
\* mapping exactly when the buffer is positive and the post-buffer key of the
\* selected jurisdiction is present (exchangeRateGBPOriginal in the UK,
\* exchangeRateAUSOriginal in Australia); none with buffer 0, at most one
C12_InsertedExactlyWhenPresent ==
    DetailsLeft =>
        /\ "exchangeRateGBPOriginal" \in SyntheticKeys <=>
                /\ exchange_rate_plus > 0
                /\ PresentRateKey = "exchangeRateGBP"
        /\ "exchangeRateAUSOriginal" \in SyntheticKeys <=>
                /\ exchange_rate_plus > 0
                /\ PresentRateKey = "exchangeRateAUS"
        /\ exchange_rate_plus = 0 => SyntheticKeys = {}
        /\ Cardinality(SyntheticKeys) <= 1

\* C12, amended: a synthetic original-rate key is inserted into the working
\* mapping exactly when the buffer is positive, the post-buffer key of the
\* selected jurisdiction is present and its value is a number; none with
\* buffer 0, at most one per render, and no other key is ever inserted
C12_InsertedExactlyWhenParseable ==
    DetailsLeft =>
        /\ "exchangeRateGBPOriginal" \in SyntheticKeys <=>
                /\ exchange_rate_plus > 0
                /\ PresentRateKey = "exchangeRateGBP"
                /\ PresentRateParses
        /\ "exchangeRateAUSOriginal" \in SyntheticKeys <=>
                /\ exchange_rate_plus > 0
                /\ PresentRateKey = "exchangeRateAUS"
                /\ PresentRateParses
        /\ exchange_rate_plus = 0 => SyntheticKeys = {}
        /\ Cardinality(SyntheticKeys) <= 1
        /\ SyntheticKeys \subseteq {"exchangeRateGBPOriginal", "exchangeRateAUSOriginal"}

C12_Witness ==
    /\ DetailsLeft
    /\ location = LocationUnitedKingdom
    /\ exchange_rate_plus > 0
    /\ DictHas(result.details, "exchangeRateAUS")
    /\ SyntheticKeys = {"exchangeRateGBPOriginal"}

\* C13: no step of a render pass changes the response payload: the keys and
\* values of result["calculationDetails"] stay as they were (the synthetic
\* key goes to the working copy alone) and result["allTransactions"] keeps
\* its records in their order (the sort acts on the derived series)
C13_PayloadUnchanged == [][result' = result]_vars

C13_Witness ==
    /\ pc = "done"
    /\ SyntheticKeys # {}
    /\ DictKeys(working_mapping) # DictKeys(result.details)
    /\ Len(result.txns) = 2
    /\ Len(chart) = 2
    /\ chart[1].Date = ParseDate(GetDate(result.txns[2])).ord
    /\ chart[1].Date < ParseDate(GetDate(result.txns[1])).ord

\* the keys the Australia view puts first, in its order
C14_AustraliaKeys ==
    <<"exchangeRateAUSOriginal", "exchangeRateAUS", "durationToCheck",
      "livingExpense_PKR", "oneYearFees_PKR", "travelExpense_PKR">>

\* C14: a jurisdiction string that is no spelling of the UK and none of
\* Australia, the empty default included, is rendered with the Australia
\* ordering (the keys of the Australia list first, in its order, every other
\* key after them), with boundAmountDependant_PKR shown whatever the
\* dependant field says, and with no original rate derived, whatever the
\* buffer and the rate keys are
C14_UnknownJurisdictionAsAustralia ==
    (DetailsLeft /\ ~is_uk(location) /\ ~is_australia(location)) =>
        LET emitted == FieldKeys(out) IN
        /\ working_mapping = result.details
        /\ \A key \in DictKeys(result.details) \ excluded_fields :
                Occurrences(emitted, key) > 0
        /\ \A key \in {"exchangeRateGBPOriginal", "exchangeRateAUSOriginal"} :
                Occurrences(emitted, key) = 0
        /\ \A i \in 1..Len(emitted) : \A j \in 1..Len(emitted) :
                (i < j /\ emitted[j] \in Range(C14_AustraliaKeys)) =>
                    /\ emitted[i] \in Range(C14_AustraliaKeys)
                    /\ PositionIn(C14_AustraliaKeys, emitted[i])
                            < PositionIn(C14_AustraliaKeys, emitted[j])

C14_Witness ==
    /\ DetailsLeft
    /\ location = <<>>
    /\ exchange_rate_plus > 0
    /\ DictKeys(result.details) =
            {"dependant", "boundAmountDependant_PKR", "exchangeRateAUS"}
    /\ result.details[1].k = "dependant"
    /\ DictGet(result.details, "dependant") = BoolV(FALSE)
    /\ PyFloat(DictGet(result.details, "exchangeRateAUS")).ok
    /\ FieldKeys(out)[1] = "exchangeRateAUS"
    /\ Occurrences(FieldKeys(out), "boundAmountDependant_PKR") > 0

----------------------------------------------------------------------------
(* Properties of format_text_with_currency *)

\* a decimal number with three or more fractional digits starts at i: the
\* pattern matches there and the match is no part of a longer group of
\* digits separated by dots
C10_NumberAt(s, i) ==
    LET k == MatchEnd(s, i) IN
    /\ k # 0
    /\ ~(i >= 2 /\ IsDigit(s[i - 1]))
    /\ ~(i >= 3 /\ s[i - 1] = "." /\ IsDigit(s[i - 2]))
    /\ ~(k + 1 <= Len(s) /\ s[k] = "." /\ IsDigit(s[k + 1]))

\* the text with each such number in two fractional digits and every other
\* character as it was
RECURSIVE C10_Rewritten(_, _)
C10_Rewritten(s, i) ==
    IF i > Len(s) THEN <<>>
    ELSE IF C10_NumberAt(s, i)
    THEN Fmt2(ParseFloat(SubSeq(s, i, MatchEnd(s, i) - 1))) \o C10_Rewritten(s, MatchEnd(s, i))
    ELSE <<s[i]>> \o C10_Rewritten(s, i + 1)

\* C10: each decimal number with three or more fractional digits comes out
\* with two, every other character unchanged, digit groups separated by dots
\* that are no decimal numbers included
C10_OnlyDecimalsRewritten ==
    pc = "formatted" => formatted = C10_Rewritten(text, 1)

====
